---- MODULE Spec2Model ----
(***************************************************************************)
(* Model of src/react/despawn_reader.rs: the DespawnAccessTracker resource *)
(* (prepare / start / end) and the DespawnEvent system parameter           *)
(* (get / entity / is_empty).                                              *)
(*                                                                         *)
(* Vec indices are 1-based here (0-based in Rust).  Option<T> is a         *)
(* sequence of length at most one: None is <<>>, Some(x) is <<x>>.         *)
(* Result<Entity, CobwebReactError> is modelled the same way: Ok(e) is     *)
(* <<e>>, Err(CobwebReactError::DespawnEvent) is <<>>.                     *)
(***************************************************************************)
EXTENDS Integers, Sequences, FiniteSets, TLC

\* Bounds of the model.
NumReactors == 2
MaxEntity == 1
MaxHandles == 3

Reactors == 1..NumReactors
Entities == 0..MaxEntity
Handles == 1..MaxHandles

VARIABLES
    currently_reacting,   \* DespawnAccessTracker.currently_reacting
    reaction_source,      \* DespawnAccessTracker.reaction_source
    reactor_handle,       \* DespawnAccessTracker.reactor_handle
    prepared,             \* DespawnAccessTracker.prepared
    debug_assertions,     \* build configuration: cfg(debug_assertions)
    panicked,             \* a panic has unwound out of a call
    dropped,              \* ReactorHandles whose destructor has run
    next_handle,          \* the next ReactorHandle the caller will create
    last,                 \* history: the call that produced this state
    prev,                 \* history: tracker and dropped set before that call
    sole                  \* history: per reactor, the source prepared while no
                          \* entry for it was waiting and not started since

vars == <<currently_reacting, reaction_source, reactor_handle, prepared,
          debug_assertions, panicked, dropped, next_handle, last, prev, sole>>

Range(s) == {s[i] : i \in 1..Len(s)}

----------------------------------------------------------------------------
(* DespawnAccessTracker *)

\* impl Default for DespawnAccessTracker
Default ==
    [currently_reacting |-> FALSE,
     reaction_source    |-> 0,
     reactor_handle     |-> <<>>,
     prepared           |-> <<>>]

\* The tracker as one value.
Self ==
    [currently_reacting |-> currently_reacting,
     reaction_source    |-> reaction_source,
     reactor_handle     |-> reactor_handle,
     prepared           |-> prepared]

\* prepare as it would be if it also published the source right away.
prepare_sets_source(self, reactor, source, handle) ==
    [self EXCEPT !.prepared = Append(@, <<reactor, source, handle>>),
                 !.reaction_source = source]

\* prepare as it would be if it kept one entry per reactor, replacing the
\* waiting entry of the same reactor.
prepare_dedups(self, reactor, source, handle) ==
    [self EXCEPT !.prepared =
        Append(SelectSeq(@, LAMBDA t : t[1] # reactor),
               <<reactor, source, handle>>)]

\* self.prepared.push((reactor, source, handle))
prepare(self, reactor, source, handle) ==
    [self EXCEPT !.prepared = Append(@, <<reactor, source, handle>>)]

\* position as it would be with rposition: the last matching entry.
position_last(v, reactor) ==
    IF \E i \in 1..Len(v) : v[i][1] = reactor
    THEN <<CHOOSE i \in 1..Len(v) :
              /\ v[i][1] = reactor
              /\ \A j \in (i + 1)..Len(v) : v[j][1] # reactor>>
    ELSE <<>>

\* self.prepared.iter().position(|(s, _, _)| *s == reactor)
position(v, reactor) ==
    IF \E i \in 1..Len(v) : v[i][1] = reactor
    THEN <<CHOOSE i \in 1..Len(v) :
              /\ v[i][1] = reactor
              /\ \A j \in 1..(i - 1) : v[j][1] # reactor>>
    ELSE <<>>

\* swap_remove as it would be with truncate(pos): the tail is lost.
swap_remove_truncates(v, pos) == SubSeq(v, 1, pos - 1)

\* Vec::swap_remove: the last element takes the place of the removed one.
swap_remove(v, pos) ==
    [i \in 1..(Len(v) - 1) |-> IF i = pos THEN v[Len(v)] ELSE v[i]]

\* start as it would be with retain(|(s, _, _)| *s != reactor) in place of
\* swap_remove: every waiting entry of the reactor is removed.
start_removes_all_matching(self, reactor, debug) ==
    LET pos == position(self.prepared, reactor) IN
    IF pos = <<>>
    THEN [self |-> self, drops |-> {}, panic |-> debug]
    ELSE LET entry == self.prepared[pos[1]]
             rest  == SelectSeq(self.prepared, LAMBDA t : t[1] # reactor) IN
         [self  |-> [currently_reacting |-> TRUE,
                     reaction_source    |-> entry[2],
                     reactor_handle     |-> <<entry[3]>>,
                     prepared           |-> rest],
          drops |-> Range(self.reactor_handle)
                    \cup {self.prepared[i][3] : i \in
                            {j \in 1..Len(self.prepared) :
                                j # pos[1] /\ self.prepared[j][1] = reactor}},
          panic |-> FALSE]

\* start as it would be if the entry were cloned and left in the collection.
start_keeps_entry(self, reactor, debug) ==
    LET pos == position(self.prepared, reactor) IN
    IF pos = <<>>
    THEN [self |-> self, drops |-> {}, panic |-> debug]
    ELSE LET entry == self.prepared[pos[1]] IN
         [self  |-> [currently_reacting |-> TRUE,
                     reaction_source    |-> entry[2],
                     reactor_handle     |-> <<entry[3]>>,
                     prepared           |-> self.prepared],
          drops |-> Range(self.reactor_handle),
          panic |-> FALSE]

\* start as it would be if the waiting collection were a queue: the entry at
\* the front is activated whatever its reactor.
start_pops_front(self, reactor, debug) ==
    IF self.prepared = <<>>
    THEN [self |-> self, drops |-> {}, panic |-> debug]
    ELSE LET entry == self.prepared[1] IN
         [self  |-> [currently_reacting |-> TRUE,
                     reaction_source    |-> entry[2],
                     reactor_handle     |-> <<entry[3]>>,
                     prepared           |-> swap_remove(self.prepared, 1)],
          drops |-> Range(self.reactor_handle),
          panic |-> FALSE]

\* start as it would be if the entry were read after swap_remove had moved
\* the last element into its place.
start_reads_after_remove(self, reactor, debug) ==
    LET pos == position(self.prepared, reactor) IN
    IF pos = <<>>
    THEN [self |-> self, drops |-> {}, panic |-> debug]
    ELSE LET entry == self.prepared[Len(self.prepared)] IN
         [self  |-> [currently_reacting |-> TRUE,
                     reaction_source    |-> entry[2],
                     reactor_handle     |-> <<entry[3]>>,
                     prepared           |-> swap_remove(self.prepared, pos[1])],
          drops |-> Range(self.reactor_handle),
          panic |-> FALSE]

\* start as it would be if the flag were raised before the lookup.
start_flag_first(self, reactor, debug) ==
    LET pos == position(self.prepared, reactor) IN
    IF pos = <<>>
    THEN [self |-> [self EXCEPT !.currently_reacting = TRUE],
          drops |-> {}, panic |-> debug]
    ELSE LET entry == self.prepared[pos[1]] IN
         [self  |-> [currently_reacting |-> TRUE,
                     reaction_source    |-> entry[2],
                     reactor_handle     |-> <<entry[3]>>,
                     prepared           |-> swap_remove(self.prepared, pos[1])],
          drops |-> Range(self.reactor_handle),
          panic |-> FALSE]

\* start as it would be if a miss cleared the active slot.
start_resets_on_miss(self, reactor, debug) ==
    LET pos == position(self.prepared, reactor) IN
    IF pos = <<>>
    THEN [self |-> [self EXCEPT !.currently_reacting = FALSE,
                                !.reactor_handle = <<>>],
          drops |-> Range(self.reactor_handle), panic |-> debug]
    ELSE LET entry == self.prepared[pos[1]] IN
         [self  |-> [currently_reacting |-> TRUE,
                     reaction_source    |-> entry[2],
                     reactor_handle     |-> <<entry[3]>>,
                     prepared           |-> swap_remove(self.prepared, pos[1])],
          drops |-> Range(self.reactor_handle),
          panic |-> FALSE]

\* start as it would be with assert!(false) in place of debug_assert!(false).
start_asserts(self, reactor, debug) ==
    LET pos == position(self.prepared, reactor) IN
    IF pos = <<>>
    THEN [self |-> self, drops |-> {}, panic |-> TRUE]
    ELSE LET entry == self.prepared[pos[1]] IN
         [self  |-> [currently_reacting |-> TRUE,
                     reaction_source    |-> entry[2],
                     reactor_handle     |-> <<entry[3]>>,
                     prepared           |-> swap_remove(self.prepared, pos[1])],
          drops |-> Range(self.reactor_handle),
          panic |-> FALSE]

\* DespawnAccessTracker::start.  The result carries the tracker after the
\* call, the handles the call dropped (assigning reactor_handle drops the
\* value it held) and whether the call panicked (debug_assert!(false)).
start(self, reactor, debug) ==
    LET pos == position(self.prepared, reactor) IN
    IF pos = <<>>
    THEN [self |-> self, drops |-> {}, panic |-> debug]
    ELSE LET entry == self.prepared[pos[1]] IN
         [self  |-> [currently_reacting |-> TRUE,
                     reaction_source    |-> entry[2],
                     reactor_handle     |-> <<entry[3]>>,
                     prepared           |-> swap_remove(self.prepared, pos[1])],
          drops |-> Range(self.reactor_handle),
          panic |-> FALSE]

\* end as it would be if it only cleared the flag and kept the handle.
end_keeps_handle(self) ==
    [self  |-> [self EXCEPT !.currently_reacting = FALSE],
     drops |-> {},
     panic |-> FALSE]

\* end as it would be if it reset the whole tracker (*self = Self::default()).
end_resets_tracker(self) ==
    [self  |-> [currently_reacting |-> FALSE,
                reaction_source    |-> 0,
                reactor_handle     |-> <<>>,
                prepared           |-> <<>>],
     drops |-> Range(self.reactor_handle)
               \cup {self.prepared[i][3] : i \in 1..Len(self.prepared)},
     panic |-> FALSE]

\* DespawnAccessTracker::end
end(self) ==
    [self  |-> [self EXCEPT !.currently_reacting = FALSE,
                            !.reactor_handle = <<>>],
     drops |-> Range(self.reactor_handle),
     panic |-> FALSE]

\* DespawnAccessTracker::is_reacting
is_reacting(self) == self.currently_reacting

\* DespawnAccessTracker::source
source(self) == self.reaction_source

----------------------------------------------------------------------------
(* DespawnEvent *)

\* get as it would be without the is_reacting check.
get_unchecked(tracker) == <<source(tracker)>>

\* DespawnEvent::get
get(tracker) ==
    IF ~is_reacting(tracker) THEN <<>> ELSE <<source(tracker)>>

\* entity as it would be with unwrap_or(default entity) in place of expect.
entity_or_default(tracker) ==
    LET r == get(tracker) IN
    IF r = <<>> THEN [panic |-> FALSE, val |-> <<0>>]
    ELSE [panic |-> FALSE, val |-> <<r[1]>>]

\* DespawnEvent::entity: get().expect(..); <<>> stands for the panic.
entity(tracker) ==
    LET r == get(tracker) IN
    IF r = <<>> THEN [panic |-> TRUE, val |-> <<>>]
    ELSE [panic |-> FALSE, val |-> <<r[1]>>]

\* is_empty as it would be if it looked at the waiting collection.
is_empty_of_prepared(tracker) == tracker.prepared = <<>>

\* DespawnEvent::is_empty: get().is_err()
is_empty(tracker) == get(tracker) = <<>>

----------------------------------------------------------------------------
(* State machine *)

Call(op, reactor, expect, result) ==
    [op |-> op, reactor |-> reactor, expect |-> expect, result |-> result]

Snapshot == [self |-> Self, dropped |-> dropped]

\* Number of waiting entries for a reactor.
Count(v, reactor) == Cardinality({i \in 1..Len(v) : v[i][1] = reactor})

Init ==
    /\ currently_reacting = Default.currently_reacting
    /\ reaction_source = Default.reaction_source
    /\ reactor_handle = Default.reactor_handle
    /\ prepared = Default.prepared
    /\ debug_assertions \in BOOLEAN
    /\ panicked = FALSE
    /\ dropped = {}
    /\ next_handle = 1
    /\ last = Call("new", 0, <<>>, <<>>)
    /\ prev = [self |-> Default, dropped |-> {}]
    /\ sole = [r \in Reactors |-> <<>>]

Install(t) ==
    /\ currently_reacting' = t.currently_reacting
    /\ reaction_source' = t.reaction_source
    /\ reactor_handle' = t.reactor_handle
    /\ prepared' = t.prepared

\* The despawn collaborator calls prepare with a fresh handle.
Prepare(r, e) ==
    /\ ~panicked
    /\ next_handle <= MaxHandles
    /\ Install(prepare(Self, r, e, next_handle))
    /\ next_handle' = next_handle + 1
    /\ last' = Call("prepare", r, <<>>, <<e, next_handle>>)
    /\ prev' = Snapshot
    /\ sole' = IF Count(prepared, r) = 0 THEN [sole EXCEPT ![r] = <<e>>] ELSE sole
    /\ UNCHANGED <<debug_assertions, panicked, dropped>>

\* The scheduling engine calls start right before it runs a reactor.
Start(r) ==
    /\ ~panicked
    /\ \E res \in {start(Self, r, debug_assertions)} :
          /\ Install(res.self)
          /\ dropped' = dropped \cup res.drops
          /\ panicked' = res.panic
    /\ last' = Call("start", r, sole[r], <<>>)
    /\ prev' = Snapshot
    /\ sole' = [sole EXCEPT ![r] = <<>>]
    /\ UNCHANGED <<debug_assertions, next_handle>>

\* The scheduling engine calls end right after the reactor returned.
End ==
    /\ ~panicked
    /\ \E res \in {end(Self)} :
          /\ Install(res.self)
          /\ dropped' = dropped \cup res.drops
          /\ panicked' = res.panic
    /\ last' = Call("end", 0, <<>>, <<>>)
    /\ prev' = Snapshot
    /\ UNCHANGED <<debug_assertions, next_handle, sole>>

\* A system reads the event with get().
Get ==
    /\ ~panicked
    /\ last' = Call("get", 0, <<>>, get(Self))
    /\ prev' = Snapshot
    /\ UNCHANGED <<currently_reacting, reaction_source, reactor_handle, prepared,
                   debug_assertions, panicked, dropped, next_handle, sole>>

\* A system reads the event with entity(); the expect() may panic.
EntityCall ==
    /\ ~panicked
    /\ \E res \in {entity(Self)} :
          /\ panicked' = res.panic
          /\ last' = Call("entity", 0, <<>>, res.val)
    /\ prev' = Snapshot
    /\ UNCHANGED <<currently_reacting, reaction_source, reactor_handle, prepared,
                   debug_assertions, dropped, next_handle, sole>>

\* A system probes the event with is_empty().
IsEmpty ==
    /\ ~panicked
    /\ last' = Call("is_empty", 0, <<>>, <<is_empty(Self)>>)
    /\ prev' = Snapshot
    /\ UNCHANGED <<currently_reacting, reaction_source, reactor_handle, prepared,
                   debug_assertions, panicked, dropped, next_handle, sole>>

Next ==
    \/ \E r \in Reactors, e \in Entities : Prepare(r, e)
    \/ \E r \in Reactors : Start(r)
    \/ End
    \/ Get
    \/ EntityCall
    \/ IsEmpty

Spec == Init /\ [][Next]_vars

\* The scheduling engine keeping to its pairing: it starts a reactor only
\* when no reaction is running and an entry is waiting for it, and calls end
\* after the reactor has run.  Despawns (prepare) may come at any time.
SchedStart(r) ==
    /\ ~is_reacting(Self)
    /\ Count(prepared, r) > 0
    /\ Start(r)

SchedEnd ==
    /\ is_reacting(Self)
    /\ End

SchedNext ==
    \/ \E r \in Reactors, e \in Entities : Prepare(r, e)
    \/ \E r \in Reactors : SchedStart(r)
    \/ SchedEnd

\* Every scheduled reactor is eventually run and every run returns.
SchedSpec ==
    /\ Init
    /\ [][SchedNext]_vars
    /\ WF_vars(\E r \in Reactors : SchedStart(r))
    /\ WF_vars(SchedEnd)

TypeOK ==
    /\ currently_reacting \in BOOLEAN
    /\ reaction_source \in Entities
    /\ Len(reactor_handle) <= 1
    /\ Range(reactor_handle) \subseteq Handles
    /\ \A i \in 1..Len(prepared) :
          prepared[i] \in Reactors \X Entities \X Handles
    /\ dropped \subseteq Handles

----------------------------------------------------------------------------
(* Properties *)

\* The call that produced this state was start(r) and found an entry.
StartHit == last.op = "start" /\ Count(prev.self.prepared, last.reactor) > 0

\* The call that produced this state was start(r) and found no entry.
StartMiss == last.op = "start" /\ Count(prev.self.prepared, last.reactor) = 0

\* A later prepare leaves what the accessor returns during a reaction alone.
PrepareKeepsReaction ==
    (last.op = "prepare" /\ is_reacting(prev.self)) =>
        /\ is_reacting(Self)
        /\ source(Self) = source(prev.self)
        /\ get(Self) = get(prev.self)
        /\ entity(Self) = entity(prev.self)

\* The accessor returns entity e.
Reads(e) ==
    /\ is_reacting(Self)
    /\ source(Self) = e
    /\ get(Self) = <<e>>
    /\ entity(Self) = [panic |-> FALSE, val |-> <<e>>]

\* C1 as stated: when prepare(r, e, h) was called while no entry for r was
\* waiting, the next start(r) makes is_reacting() true and source(), get() and
\* entity() return e, and later prepare calls do not change that.
C1_AsStated ==
    /\ (last.op = "start" /\ last.expect # <<>>) => Reads(last.expect[1])
    /\ PrepareKeepsReaction

\* C1 amended: the same, provided no further prepare for r was made before
\* start(r), i.e. the entry is the only one waiting for r when start(r) runs.
C1_StartActivatesPrepared ==
    /\ (/\ last.op = "start"
        /\ last.expect # <<>>
        /\ Count(prev.self.prepared, last.reactor) = 1) => Reads(last.expect[1])
    /\ PrepareKeepsReaction

C1_Witness ==
    /\ last.op = "start"
    /\ last.expect # <<>>
    /\ Count(prev.self.prepared, last.reactor) = 1
    /\ Len(prev.self.prepared) > 1
    /\ prev.self.reaction_source # last.expect[1]
    /\ Reads(last.expect[1])

\* The reactor ids of the waiting entries are pairwise distinct.
DistinctReactors(v) ==
    \A i, j \in 1..Len(v) : v[i][1] = v[j][1] => i = j

\* C2: when the waiting entries have pairwise distinct reactor ids, start(r)
\* activates exactly the source and handle prepared for r, wherever the entry
\* sits in the collection, and leaves the other entries waiting.
C2_StartMatchesById ==
    (StartHit /\ DistinctReactors(prev.self.prepared)) =>
        \A i \in 1..Len(prev.self.prepared) :
            prev.self.prepared[i][1] = last.reactor =>
                /\ Reads(prev.self.prepared[i][2])
                /\ reactor_handle = <<prev.self.prepared[i][3]>>
                /\ Range(prepared) =
                       Range(prev.self.prepared) \ {prev.self.prepared[i]}
                /\ Len(prepared) = Len(prev.self.prepared) - 1

C2_Witness ==
    /\ StartHit
    /\ DistinctReactors(prev.self.prepared)
    /\ Len(prev.self.prepared) > 1
    /\ prev.self.prepared[1][1] # last.reactor
    /\ prev.self.prepared[1][2] # reaction_source
    /\ prev.self.reaction_source # reaction_source
    /\ prev.dropped # {}

\* C3: get() fails in the initial state and after end() until a start finds an
\* entry; it succeeds exactly when is_reacting() and then returns source().
C3_GetFailsUnlessReacting ==
    /\ last.op \in {"new", "end"} => get(Self) = <<>>
    /\ (get(prev.self) = <<>> /\ ~StartHit) => get(Self) = <<>>
    /\ (get(Self) # <<>>) <=> is_reacting(Self)
    /\ is_reacting(Self) => get(Self) = <<source(Self)>>

C3_Witness ==
    /\ last.op = "end"
    /\ source(Self) # Default.reaction_source
    /\ prev.self.currently_reacting
    /\ get(Self) = <<>>

\* C4 as stated: after a start(r) that finds no entry, is_reacting() is false
\* and get() fails, whatever calls came before.
C4_AsStated ==
    StartMiss => (~is_reacting(Self) /\ get(Self) = <<>>)

\* C4 amended: a start(r) that finds no entry leaves is_reacting() as it was;
\* when no reaction was active before the call, is_reacting() is false after
\* it, get() fails and entity() panics.
C4_MissLeavesFlag ==
    StartMiss =>
        /\ is_reacting(Self) = is_reacting(prev.self)
        /\ ~is_reacting(prev.self) =>
              /\ ~is_reacting(Self)
              /\ get(Self) = <<>>
              /\ entity(Self).panic

C4_Witness ==
    /\ StartMiss
    /\ ~is_reacting(prev.self)
    /\ ~is_reacting(Self)
    /\ prepared # <<>>
    /\ source(Self) # Default.reaction_source

\* C5: a start(r) that finds no entry changes nothing: flag, source entity,
\* held handle and waiting collection are as before, and no handle is dropped.
C5_MissChangesNothing ==
    StartMiss => (Self = prev.self /\ dropped = prev.dropped)

C5_Witness ==
    /\ StartMiss
    /\ is_reacting(Self)
    /\ reactor_handle # <<>>
    /\ prepared # <<>>

\* C6 as stated: a start(r) that finds no entry never panics, in debug builds
\* as in release builds.
C6_AsStated ==
    StartMiss => ~panicked

\* C6 amended: a start(r) that finds no entry panics exactly in builds with
\* debug assertions; without them the call returns and end, start and the
\* accessor can be called afterwards.
C6_MissPanicsOnlyInDebug ==
    StartMiss =>
        /\ panicked <=> debug_assertions
        /\ ~debug_assertions =>
              /\ ENABLED End
              /\ \A r \in Reactors : ENABLED Start(r)
              /\ ENABLED Get

C6_Witness ==
    /\ StartMiss
    /\ ~debug_assertions
    /\ ~panicked
    /\ prepared # <<>>

\* C7: after end() is_reacting() is false, no handle is held, the handle that
\* was held has been dropped by the call and the waiting collection is as
\* before.
C7_EndClearsAndDrops ==
    last.op = "end" =>
        /\ ~is_reacting(Self)
        /\ reactor_handle = <<>>
        /\ Range(prev.self.reactor_handle) \subseteq dropped
        /\ dropped = prev.dropped \cup Range(prev.self.reactor_handle)
        /\ prepared = prev.self.prepared

C7_Witness ==
    /\ last.op = "end"
    /\ prev.self.reactor_handle # <<>>
    /\ ~(Range(prev.self.reactor_handle) \subseteq prev.dropped)
    /\ prepared # <<>>

\* C8: end() twice gives the state end() once gives, and end() with nothing
\* active changes nothing, drops nothing and does not panic.
C8_EndIdempotent ==
    /\ end(end(Self).self).self = end(Self).self
    /\ end(end(Self).self).drops = {}
    /\ ~is_reacting(Self) =>
          end(Self) = [self |-> Self, drops |-> {}, panic |-> FALSE]
    /\ (last.op = "end" /\ ~is_reacting(prev.self)) =>
          (Self = prev.self /\ dropped = prev.dropped /\ ~panicked)

C8_Witness ==
    /\ last.op = "end"
    /\ ~is_reacting(prev.self)
    /\ Self = prev.self
    /\ prepared # <<>>
    /\ source(Self) # Default.reaction_source

\* C9: entity() panics exactly when get() fails and otherwise returns what
\* get() returns; it never returns an entity while no reaction is active.
C9_EntityTrapsIffGetFails ==
    /\ entity(Self).panic <=> (get(Self) = <<>>)
    /\ ~entity(Self).panic => entity(Self).val = get(Self)
    /\ entity(Self).panic => entity(Self).val = <<>>
    /\ last.op = "entity" =>
          /\ panicked <=> (get(prev.self) = <<>>)
          /\ last.result = get(prev.self)

C9_Witness ==
    /\ last.op = "entity"
    /\ panicked
    /\ last.result = <<>>
    /\ source(Self) # Default.reaction_source

\* C10: is_empty() is true exactly when get() fails, which is exactly when
\* is_reacting() is false.
C10_IsEmptyMirrorsGet ==
    /\ is_empty(Self) <=> (get(Self) = <<>>)
    /\ is_empty(Self) <=> ~is_reacting(Self)
    /\ last.op = "is_empty" =>
          last.result = <<get(prev.self) = <<>>>>

C10_Witness ==
    /\ last.op = "is_empty"
    /\ last.result = <<FALSE>>
    /\ prepared = <<>>

\* C11 as stated: a start call made while is_reacting() is true leaves the
\* active source entity and the active handle alone and drops nothing.
C11_AsStated ==
    (last.op = "start" /\ is_reacting(prev.self)) =>
        /\ source(Self) = source(prev.self)
        /\ reactor_handle = prev.self.reactor_handle
        /\ dropped = prev.dropped

\* C11 amended: an active context is removed by end() or replaced by a start
\* that finds an entry while it is active (start does not look at the flag:
\* it overwrites the source and drops the handle that was held); prepare, a
\* start that finds no entry and the accessor calls leave it in place.
C11_ContextRemovedByEndOrStartHit ==
    /\ (/\ is_reacting(prev.self)
        /\ \/ source(Self) # source(prev.self)
           \/ reactor_handle # prev.self.reactor_handle
           \/ ~is_reacting(Self)
           \/ dropped # prev.dropped)
       => (last.op = "end" \/ StartHit)
    /\ (StartHit /\ is_reacting(prev.self)) =>
          /\ reactor_handle # prev.self.reactor_handle
          /\ dropped = prev.dropped \cup Range(prev.self.reactor_handle)
    /\ (StartHit /\ ~is_reacting(prev.self)) => dropped = prev.dropped

C11_Witness ==
    /\ StartHit
    /\ is_reacting(prev.self)
    /\ source(Self) # source(prev.self)
    /\ Range(prev.self.reactor_handle) \subseteq dropped
    /\ ~(Range(prev.self.reactor_handle) \subseteq prev.dropped)

\* C12: the active flag is true exactly when reactor_handle holds a handle.
C12_FlagIffHandle ==
    currently_reacting <=> (reactor_handle # <<>>)

C12_Witness ==
    /\ last.op = "end"
    /\ prev.self.currently_reacting
    /\ prev.self.reactor_handle # <<>>
    /\ ~currently_reacting
    /\ reactor_handle = <<>>

\* C13: a start that finds an entry removes exactly one entry, one whose
\* reactor is the started one, and keeps every other entry; no other call
\* removes an entry.
C13_EntryRemovedOnlyByItsStart ==
    /\ StartHit =>
          /\ Len(prepared) = Len(prev.self.prepared) - 1
          /\ \E i \in 1..Len(prev.self.prepared) :
                /\ prev.self.prepared[i][1] = last.reactor
                /\ Range(prepared) =
                       Range(prev.self.prepared) \ {prev.self.prepared[i]}
    /\ ~StartHit =>
          /\ Range(prev.self.prepared) \subseteq Range(prepared)
          /\ Len(prepared) >= Len(prev.self.prepared)

C13_Witness ==
    /\ StartHit
    /\ Count(prev.self.prepared, last.reactor) = 2
    /\ Count(prepared, last.reactor) = 1
    /\ Len(prepared) = 2

\* C15: prepare(reactor, source, handle) does not panic and only appends the
\* entry (reactor, source, handle): the entries that were waiting are still
\* there in the same places, and flag, source entity, held handle and dropped
\* handles are as before, Idle or Reacting, duplicate reactor or not.
C15_PrepareOnlyAppends ==
    last.op = "prepare" =>
        /\ ~panicked
        /\ prepared = Append(prev.self.prepared,
                             <<last.reactor, last.result[1], last.result[2]>>)
        /\ currently_reacting = prev.self.currently_reacting
        /\ reaction_source = prev.self.reaction_source
        /\ reactor_handle = prev.self.reactor_handle
        /\ dropped = prev.dropped

C15_Witness ==
    /\ last.op = "prepare"
    /\ Count(prev.self.prepared, last.reactor) = 1
    /\ Count(prepared, last.reactor) = 2
    /\ is_reacting(Self)
    /\ source(Self) # last.result[1]

\* C16: the tracker starts Idle with nothing waiting; it goes from Idle to
\* Reacting only by a start that finds an entry and from Reacting to Idle only
\* by end(); prepare and a start that finds no entry keep it where it is.
C16_IdleReactingTransitions ==
    /\ last.op = "new" => (~is_reacting(Self) /\ prepared = <<>>)
    /\ (~is_reacting(prev.self) /\ is_reacting(Self)) => StartHit
    /\ (is_reacting(prev.self) /\ ~is_reacting(Self)) => last.op = "end"
    /\ (last.op = "prepare" \/ StartMiss) =>
          (is_reacting(Self) <=> is_reacting(prev.self))

C16_Witness ==
    /\ StartHit
    /\ ~is_reacting(prev.self)
    /\ is_reacting(Self)
    /\ prev.dropped # {}

\* C17: an entry that is waiting stays waiting, with its handle neither
\* dropped nor active, across every call that is not a start for its reactor.
C17_OrphanStays ==
    \A i \in 1..Len(prev.self.prepared) :
        ~(last.op = "start" /\ last.reactor = prev.self.prepared[i][1]) =>
            /\ Count(prepared, prev.self.prepared[i][1])
                   >= Count(prev.self.prepared, prev.self.prepared[i][1])
            /\ \E j \in 1..Len(prepared) : prepared[j] = prev.self.prepared[i]
            /\ prev.self.prepared[i][3] \notin dropped
            /\ prev.self.prepared[i][3] \notin Range(reactor_handle)

C17_Witness ==
    /\ StartHit
    /\ Len(prev.self.prepared) = 3
    /\ prev.self.prepared[3][1] # last.reactor
    /\ prev.self.prepared[1][1] = last.reactor
    /\ prepared[1] = prev.self.prepared[3]
    /\ prepared[1][3] \notin dropped

\* Number of waiting entries that hold handle h.
Holders(v, h) == Cardinality({i \in 1..Len(v) : v[i][3] = h})

\* C19: every handle passed to prepare is in exactly one place: in one
\* waiting entry, in the active slot, or dropped; a dropped handle stays
\* dropped and is never held again.
C19_HandlesConserved ==
    /\ \A h \in 1..(next_handle - 1) :
          Holders(prepared, h)
            + (IF h \in Range(reactor_handle) THEN 1 ELSE 0)
            + (IF h \in dropped THEN 1 ELSE 0) = 1
    /\ \A h \in Handles : h >= next_handle =>
          /\ Holders(prepared, h) = 0
          /\ h \notin Range(reactor_handle)
          /\ h \notin dropped
    /\ prev.dropped \subseteq dropped
    /\ \A h \in dropped \ prev.dropped :
          h \in Range(prev.self.reactor_handle)

C19_Witness ==
    /\ Len(prepared) = 1
    /\ reactor_handle # <<>>
    /\ dropped # {}
    /\ last.op = "start"
    /\ dropped # prev.dropped

\* The waiting entry of the reactor that was prepared first (handles are
\* handed out in the order of the prepare calls).
OldestHandle(v, reactor) ==
    CHOOSE h \in {v[i][3] : i \in {j \in 1..Len(v) : v[j][1] = reactor}} :
        \A i \in 1..Len(v) : v[i][1] = reactor => h <= v[i][3]

\* C20 as stated: with several entries waiting for one reactor, start(r)
\* activates them in the order they were prepared.
C20_AsStated ==
    StartHit =>
        reactor_handle = <<OldestHandle(prev.self.prepared, last.reactor)>>

\* C20 amended: start(r) activates the waiting entry for r that stands first
\* in the Vec and moves the last entry of the Vec into its place, so several
\* entries of r are not always activated in the order they were prepared.
C20_StartTakesFirstInVec ==
    StartHit =>
        \E i \in 1..Len(prev.self.prepared) :
            /\ prev.self.prepared[i][1] = last.reactor
            /\ \A j \in 1..(i - 1) : prev.self.prepared[j][1] # last.reactor
            /\ reactor_handle = <<prev.self.prepared[i][3]>>
            /\ reaction_source = prev.self.prepared[i][2]
            /\ \A j \in 1..Len(prepared) :
                  prepared[j] = IF j = i
                                THEN prev.self.prepared[Len(prev.self.prepared)]
                                ELSE prev.self.prepared[j]

C20_Witness ==
    /\ StartHit
    /\ Count(prev.self.prepared, last.reactor) = 2
    /\ reactor_handle # <<OldestHandle(prev.self.prepared, last.reactor)>>
    /\ ~is_reacting(prev.self)

\* The tracker after prepare(r, e, h), start(r), end() and a second start(r),
\* from a tracker t in which no entry for r is waiting.
Replay(t, r, e, h) ==
    LET t1 == prepare(t, r, e, h)
        t2 == start(t1, r, debug_assertions)
        t3 == end(t2.self)
        t4 == start(t3.self, r, debug_assertions)
    IN  [active |-> t2.self, ended |-> t3.self, again |-> t4]

\* C14: a prepared entry is consumed by its start: after prepare(r, e, h),
\* start(r), end(), a second start(r) with no prepare for r in between finds
\* no entry, changes nothing and leaves is_reacting() false and get() failing;
\* the handle of a consumed entry is never waiting or active again.
C14_ConsumedNotReplayed ==
    /\ (StartHit /\ Count(prev.self.prepared, last.reactor) = 1) =>
          /\ Count(prepared, last.reactor) = 0
          /\ start(Self, last.reactor, debug_assertions).self = Self
    /\ last.op \in {"new", "end"} =>
          \A r \in Reactors, e \in Entities :
              Count(prepared, r) = 0 =>
                  LET run == Replay(Self, r, e, next_handle) IN
                  /\ is_reacting(run.active)
                  /\ get(run.active) = <<e>>
                  /\ ~is_reacting(run.ended)
                  /\ run.again.self = run.ended
                  /\ run.again.drops = {}
                  /\ ~is_reacting(run.again.self)
                  /\ get(run.again.self) = <<>>
    /\ \A h \in dropped :
          /\ h \notin Range(reactor_handle)
          /\ \A i \in 1..Len(prepared) : prepared[i][3] # h

C14_Witness ==
    /\ StartMiss
    /\ prev.self.prepared = <<>>
    /\ prev.dropped # {}
    /\ Cardinality(prev.dropped) = next_handle - 1
    /\ ~is_reacting(Self)
    /\ get(Self) = <<>>
    /\ source(Self) # Default.reaction_source

\* All handles passed to prepare so far.
Issued == 1..(next_handle - 1)

\* The tracker is Idle, nothing is waiting and every issued handle is dropped.
Drained ==
    /\ ~is_reacting(Self)
    /\ reactor_handle = <<>>
    /\ prepared = <<>>
    /\ dropped = Issued

\* C18: when the scheduler starts and then ends every prepared entry, one
\* reactor at a time, and prepare is called finitely often, the tracker
\* eventually stays Idle with nothing waiting and every handle dropped.
C18_EventuallyDrained == <>[]Drained

C18_Witness ==
    /\ last.op = "end"
    /\ Drained
    /\ next_handle = MaxHandles + 1
    /\ dropped = Handles

====
